---- MODULE Spec2Model ----
(***************************************************************************)
(* NoteVault: the access state machine of App (main.py), the password      *)
(* functions and Encoder (password.py), AppConfig and its two files        *)
(* (config.py) and the records table of Database (database.py).            *)
(*                                                                         *)
(* Text is a sequence of characters; a character is the one-character     *)
(* string, or "U+XXXX" with its code point in hexadecimal digits.  Bytes   *)
(* are a sequence of numbers 0..255.  A Scrypt output is the symbolic      *)
(* value <<"scrypt", HmacKey(password), salt>>.  Scrypt uses the password  *)
(* only as an HMAC-SHA256 key: the UTF-8 bytes of the password, replaced   *)
(* by their SHA-256 digest when there are more than 64 of them, and then   *)
(* padded with zero bytes to 64.  So two passwords give one key exactly    *)
(* when these key blocks are equal: passwords of up to 64 bytes that       *)
(* differ in trailing NUL characters, or a longer password and a password  *)
(* whose bytes are its digest.  UTF-8 and SHA-256 are computed.            *)
(***************************************************************************)
EXTENDS Integers, Sequences, FiniteSets, TLC

VARIABLES
    alive,        \* TRUE while the process runs (between App.__init__ and sys.exit)
    state,        \* App.state, the name of an AppState member
    encoder,      \* App.encoder: None or an Encoder
    user_input,   \* App.user_input
    user_input2,  \* App.user_input2
    config,       \* App.config: storage_pth, password_salt, _password_hash
    cfg_file,     \* <storage_pth>/config.json
    hash_file,    \* <storage_pth>/hash
    db,           \* rows of the table records(name PRIMARY KEY, body), in rowid order
    db_call,      \* history: the title and body the last Database method was given
    db_result,    \* what the last Database method returned or raised
    abs_map,      \* history: the map built from the puts that succeeded and the deletes
    kdf_calls,    \* history: Scrypt derive/verify calls made by the last handler
    lastOp        \* history: the handler that ran last

vars == <<alive, state, encoder, user_input, user_input2, config, cfg_file,
          hash_file, db, db_call, db_result, abs_map, kdf_calls, lastOp>>

\* Every optional value is a tuple, so that any two of them compare:
\* a text or a byte string is the tuple of its characters, b"" is <<>>.
None == <<"None">>
NoFile == <<"NoFile">>
EmptyFile == <<>>
IntegrityError == <<"IntegrityError">>
STORAGE_PTH == "storage_pth"

----------------------------------------------------------------------------
(* Bounds of the model *)

NumSalts == 2
MaxRows == 3
MaxPwdLen == 34

Salts == 1..NumSalts

Rep(c, n) == [i \in 1..n |-> c]

EmptyText == <<>>
ShortPwd == <<"s", "h", "o", "r", "t">>
StrongPwd == <<"S", "t", "r", "0", "n", "g", "!", "P", "a", "s", "s">>
OtherPwd == <<"A", "n", "0", "t", "h", "e", "r", "#", "P", "w">>
SpacedPwd == <<"p", "a", "s", "s", " ", "w", "o", "r", "d">>
LongPwd == Rep("a", 33)
\* a password of 73 bytes, which the text fields (255 bytes) take, and the
\* text whose UTF-8 bytes are its SHA-256 digest
HashedPwd == Rep("a", 65) \o <<"5", "0", "4", "0", "4", "4", "0", "8">>
DigestPwd ==
    << "<", "q", "U+0019", "U+0018", "f", "U+0004", "@", "~", "U+001F", "4",
       "_", "F", "8", "U+0306", "]", "Q", "a", "U+0019", "E", "W", "]",
       "U+074D", "U+F7A6", "Q", "9", "P", "$", "U+000C" >>

Texts ==
    {EmptyText, ShortPwd, StrongPwd, OtherPwd, SpacedPwd, LongPwd, HashedPwd, DigestPwd}
Bodies == {EmptyText, ShortPwd, SpacedPwd}

\* the passwords of every length up to MaxPwdLen made of "a" with at most one
\* other character, two of the others being outside VALID_CHARS
PwAlphabet == {"a", "Z", "7", "~", " ", "\t"}
PwInputs ==
    { [i \in 1..n |-> IF i = k THEN c ELSE "a"] :
        n \in 0..MaxPwdLen, k \in 1..MaxPwdLen, c \in PwAlphabet }

DbTitles == {ShortPwd, StrongPwd, SpacedPwd}
DbBodies == {<<"t", "o", "k", "A">>, <<"t", "o", "k", "B">>}

----------------------------------------------------------------------------
(* AppState and its order (main.py) *)

AppStateValue ==
    [ HARDRESET |-> -100, CONFIRMHARDRESET |-> -99, CONFIRMHARDRESETFAILED |-> -98,
      INVALIDNEWPASSWORD |-> -2, EMPTY |-> -1,
      LOGGEDOFF |-> 0, INVALIDPASSWORD |-> 1,
      LOGGEDON |-> 2, ADDRECORD |-> 3, FINDRECORD |-> 4, DELETERECORD |-> 5,
      RECORDFOUND |-> 6, RECORDNOTFOUND |-> 7,
      CHANGEPASSWORD |-> 100, CHANGEPASSWORDFAILED |-> 101 ]

AppState == DOMAIN AppStateValue

\* AppState.__lt__ and the comparisons total_ordering derives from it
StateLt(a, b) == AppStateValue[a] < AppStateValue[b]
StateGe(a, b) == ~StateLt(a, b)
StateLe(a, b) == StateLt(a, b) \/ a = b

\* the guard of the "Reset.." menu
ResetMenuShown(s) == StateGe(s, "LOGGEDON")

\* the guard of the branch that draws the main options menu
MainBranch(s) == StateGe(s, "LOGGEDON") /\ StateLe(s, "RECORDNOTFOUND")

----------------------------------------------------------------------------
(* password.py *)

Letters ==
    { "a", "b", "c", "d", "e", "f", "g", "h", "i", "j", "k", "l", "m",
      "n", "o", "p", "q", "r", "s", "t", "u", "v", "w", "x", "y", "z",
      "A", "B", "C", "D", "E", "F", "G", "H", "I", "J", "K", "L", "M",
      "N", "O", "P", "Q", "R", "S", "T", "U", "V", "W", "X", "Y", "Z" }
Digits == { "0", "1", "2", "3", "4", "5", "6", "7", "8", "9" }
\* string.punctuation has the character U+0060, which a TLA+ string cannot hold
GraveAccent == "U+0060"
Punctuation ==
    { "!", "\"", "#", "$", "%", "&", "'", "(", ")", "*", "+", ",", "-", ".", "/",
      ":", ";", "<", "=", ">", "?", "@", "[", "\\", "]", "^", "_", GraveAccent,
      "{", "|", "}", "~" }

VALID_CHARS == Letters \cup Digits \cup Punctuation

\* the requirements without the upper limit of the length
password_meets_requirements_NoUpperLimit(password) ==
    IF Len(password) < 8 THEN FALSE
    ELSE IF \E i \in 1..Len(password) : password[i] \notin VALID_CHARS THEN FALSE
    ELSE TRUE

\* the requirements with the lower limit of the length off by one
password_meets_requirements_OffByOne(password) ==
    IF (Len(password) <= 8) \/ (Len(password) > 32) THEN FALSE
    ELSE IF \E i \in 1..Len(password) : password[i] \notin VALID_CHARS THEN FALSE
    ELSE TRUE

password_meets_requirements(password) ==
    IF (Len(password) < 8) \/ (Len(password) > 32) THEN FALSE
    ELSE IF \E i \in 1..Len(password) : password[i] \notin VALID_CHARS THEN FALSE
    ELSE TRUE

\* the character U+0000, which a TLA+ string cannot hold
NUL == "U+0000"

\* the printable ASCII characters U+0020 .. U+007E in the order of their codes
AsciiPrintable ==
    <<
       " ", "!", "\"", "#", "$", "%", "&", "'", "(", ")", "*", "+", ",", "-", ".", "/",
       "0", "1", "2", "3", "4", "5", "6", "7", "8", "9", ":", ";", "<", "=", ">", "?",
       "@", "A", "B", "C", "D", "E", "F", "G", "H", "I", "J", "K", "L", "M", "N", "O",
       "P", "Q", "R", "S", "T", "U", "V", "W", "X", "Y", "Z", "[", "\\", "]", "^", "_",
       GraveAccent, "a", "b", "c", "d", "e", "f", "g", "h", "i", "j", "k", "l", "m", "n", "o",
       "p", "q", "r", "s", "t", "u", "v", "w", "x", "y", "z", "{", "|", "}", "~" >>

HexDigits ==
    << "0", "1", "2", "3", "4", "5", "6", "7", "8", "9", "A", "B", "C", "D", "E", "F" >>

\* the number a text of hexadecimal digits writes
RECURSIVE HexValue(_)
HexValue(h) ==
    IF Len(h) = 0 THEN 0
    ELSE 16 * HexValue(SubSeq(h, 1, Len(h) - 1))
         + (CHOOSE d \in 0..15 : HexDigits[d + 1] = SubSeq(h, Len(h), Len(h)))

\* ord(c): the code point of a character, written as itself or as "U+XXXX"
Ord(c) ==
    IF Len(c) > 1 THEN HexValue(SubSeq(c, 3, Len(c)))
    ELSE CASE c = "\t" -> 9
           [] c = "\n" -> 10
           [] c = "\f" -> 12
           [] c = "\r" -> 13
           [] OTHER -> 31 + (CHOOSE i \in 1..95 : AsciiPrintable[i] = c)

\* the UTF-8 bytes of the code point cp
Utf8Char(cp) ==
    IF cp < 128 THEN <<cp>>
    ELSE IF cp < 2048 THEN <<192 + (cp \div 64), 128 + (cp % 64)>>
    ELSE IF cp < 65536
         THEN <<224 + (cp \div 4096), 128 + ((cp \div 64) % 64), 128 + (cp % 64)>>
    ELSE <<240 + (cp \div 262144), 128 + ((cp \div 4096) % 64),
           128 + ((cp \div 64) % 64), 128 + (cp % 64)>>

\* str.encode("utf-8") raises UnicodeEncodeError on a surrogate code point
UnicodeEncodeError == <<"UnicodeEncodeError">>
Encodable(text) == \A i \in 1..Len(text) : Ord(text[i]) \notin 55296..57343

\* password.encode("utf-8"), for a text that can be encoded
RECURSIVE encode_utf8(_)
encode_utf8(text) ==
    IF Len(text) = 0 THEN <<>>
    ELSE IF Len(text) = 1 THEN Utf8Char(Ord(text[1]))
    ELSE LET mid == Len(text) \div 2
         IN  encode_utf8(SubSeq(text, 1, mid)) \o encode_utf8(SubSeq(text, mid + 1, Len(text)))

\* SHA-256 (FIPS 180-4) on 32-bit words kept as <<high 16 bits, low 16 bits>>
RECURSIVE Xor16(_, _)
Xor16(a, b) ==
    IF a = 0 THEN b
    ELSE IF b = 0 THEN a
    ELSE ((a + b) % 2) + 2 * Xor16(a \div 2, b \div 2)

RECURSIVE And16(_, _)
And16(a, b) ==
    IF a = 0 \/ b = 0 THEN 0
    ELSE ((a % 2) * (b % 2)) + 2 * And16(a \div 2, b \div 2)

WXor(x, y) == <<Xor16(x[1], y[1]), Xor16(x[2], y[2])>>
WAnd(x, y) == <<And16(x[1], y[1]), And16(x[2], y[2])>>
WNot(x) == <<65535 - x[1], 65535 - x[2]>>
WAdd(x, y) ==
    LET lo == x[2] + y[2]
        hi == x[1] + y[1] + (lo \div 65536)
    IN  <<hi % 65536, lo % 65536>>

\* rotate and shift to the right by n bits, 0 < n < 32
RECURSIVE Rotr(_, _)
Rotr(x, n) ==
    IF n >= 16 THEN (IF n = 16 THEN <<x[2], x[1]>> ELSE Rotr(<<x[2], x[1]>>, n - 16))
    ELSE <<(x[1] \div 2^n) + (x[2] % 2^n) * 2^(16 - n),
           (x[2] \div 2^n) + (x[1] % 2^n) * 2^(16 - n)>>
Shr(x, n) ==
    IF n >= 16 THEN <<0, x[1] \div 2^(n - 16)>>
    ELSE <<x[1] \div 2^n, (x[2] \div 2^n) + (x[1] % 2^n) * 2^(16 - n)>>

Ch(x, y, z) == WXor(WAnd(x, y), WAnd(WNot(x), z))
Maj(x, y, z) == WXor(WXor(WAnd(x, y), WAnd(x, z)), WAnd(y, z))
BigSigma0(x) == WXor(WXor(Rotr(x, 2), Rotr(x, 13)), Rotr(x, 22))
BigSigma1(x) == WXor(WXor(Rotr(x, 6), Rotr(x, 11)), Rotr(x, 25))
SmallSigma0(x) == WXor(WXor(Rotr(x, 7), Rotr(x, 18)), Shr(x, 3))
SmallSigma1(x) == WXor(WXor(Rotr(x, 17), Rotr(x, 19)), Shr(x, 10))

Sha256K ==
    <<
       <<17034, 12184>>, <<28983, 17553>>, <<46528, 64463>>, <<59829, 56229>>,
       <<14678, 49755>>, <<23025, 4593>>, <<37439, 33444>>, <<43804, 24277>>,
       <<55303, 43672>>, <<4739, 23297>>, <<9265, 34238>>, <<21772, 32195>>,
       <<29374, 23924>>, <<32990, 45566>>, <<39900, 1703>>, <<49563, 61812>>,
       <<58523, 27073>>, <<61374, 18310>>, <<4033, 40390>>, <<9228, 41420>>,
       <<11753, 11375>>, <<19060, 33962>>, <<23728, 43484>>, <<30457, 35034>>,
       <<38974, 20818>>, <<43057, 50797>>, <<45059, 10184>>, <<48985, 32711>>,
       <<50912, 3059>>, <<54695, 37191>>, <<1738, 25425>>, <<5161, 10599>>,
       <<10167, 2693>>, <<11803, 8504>>, <<19756, 28156>>, <<21304, 3347>>,
       <<25866, 29524>>, <<30314, 2747>>, <<33218, 51502>>, <<37490, 11397>>,
       <<41663, 59553>>, <<43034, 26187>>, <<49739, 35696>>, <<51052, 20899>>,
       <<53650, 59417>>, <<54937, 1572>>, <<62478, 13701>>, <<4202, 41072>>,
       <<6564, 49430>>, <<7735, 27656>>, <<10056, 30540>>, <<13488, 48309>>,
       <<14620, 3251>>, <<20184, 43594>>, <<23452, 51791>>, <<26670, 28659>>,
       <<29839, 33518>>, <<30885, 25455>>, <<33992, 30740>>, <<36039, 520>>,
       <<37054, 65530>>, <<42064, 27883>>, <<48889, 41975>>, <<50801, 30962>> >>

Sha256H0 ==
    <<
       <<27145, 58983>>, <<47975, 44677>>, <<15470, 62322>>, <<42319, 62778>>,
       <<20750, 21119>>, <<39685, 26764>>, <<8067, 55723>>, <<23520, 52505>> >>

\* the message followed by 0x80, zero bytes up to 56 modulo 64 and the length
\* in bits as 8 bytes
Sha256Pad(bytes) ==
    LET n == Len(bytes)
        zeros == (119 - (n % 64)) % 64
        bits == 8 * n
    IN  bytes \o <<128>> \o [i \in 1..zeros |-> 0]
        \o <<0, 0, 0, 0, bits \div 16777216, (bits \div 65536) % 256,
             (bits \div 256) % 256, bits % 256>>

\* the 16 words of block number k (from 0) of the padded message
Sha256Block(padded, k) ==
    [t \in 1..16 |->
        <<256 * padded[64 * k + 4 * t - 3] + padded[64 * k + 4 * t - 2],
          256 * padded[64 * k + 4 * t - 1] + padded[64 * k + 4 * t]>>]

\* the message schedule with its next word
Sha256Extend(w) ==
    LET t == Len(w) + 1
    IN  Append(w, WAdd(WAdd(SmallSigma1(w[t - 2]), w[t - 7]),
                       WAdd(SmallSigma0(w[t - 15]), w[t - 16])))

\* the message schedule with its next n words, n > 0; the first half is
\* computed before the second starts
RECURSIVE Sha256Schedule(_, _)
Sha256Schedule(w, n) ==
    IF n = 1 THEN Sha256Extend(w)
    ELSE CHOOSE r \in { Sha256Schedule(m, n - (n \div 2)) :
                          m \in { Sha256Schedule(w, n \div 2) } } : TRUE

\* round t of the compression on the working variables v = <<a, .., h>>
Sha256Round(v, w, t) ==
    LET t1 == WAdd(WAdd(WAdd(v[8], BigSigma1(v[5])), Ch(v[5], v[6], v[7])),
                   WAdd(Sha256K[t], w[t]))
        t2 == WAdd(BigSigma0(v[1]), Maj(v[1], v[2], v[3]))
    IN  <<WAdd(t1, t2), v[1], v[2], v[3], WAdd(v[4], t1), v[5], v[6], v[7]>>

\* rounds lo .. hi of the compression, in order
RECURSIVE Sha256Rounds(_, _, _, _)
Sha256Rounds(v, w, lo, hi) ==
    IF lo = hi THEN Sha256Round(v, w, lo)
    ELSE CHOOSE r \in { Sha256Rounds(m, w, ((lo + hi) \div 2) + 1, hi) :
                          m \in { Sha256Rounds(v, w, lo, (lo + hi) \div 2) } } : TRUE

\* the hash value h after one more block of 16 words
Sha256Compress(h, block) ==
    CHOOSE r \in { <<WAdd(h[1], v[1]), WAdd(h[2], v[2]), WAdd(h[3], v[3]),
                     WAdd(h[4], v[4]), WAdd(h[5], v[5]), WAdd(h[6], v[6]),
                     WAdd(h[7], v[7]), WAdd(h[8], v[8])>> :
                     v \in { Sha256Rounds(h, w, 1, 64) :
                               w \in { Sha256Schedule(block, 48) } } } : TRUE

\* the hash value after the blocks k .. of the padded message
RECURSIVE Sha256Blocks(_, _, _)
Sha256Blocks(h, padded, k) ==
    IF 64 * k >= Len(padded) THEN h
    ELSE CHOOSE r \in { Sha256Blocks(g, padded, k + 1) :
                          g \in { Sha256Compress(h, Sha256Block(padded, k)) } } : TRUE

\* hashlib-style digest: the 32 bytes of SHA-256(bytes)
SHA256(bytes) ==
    CHOOSE r \in { [i \in 1..32 |->
                      LET half == h[(i + 3) \div 4][1 + (((i - 1) % 4) \div 2)]
                      IN  IF i % 2 = 1 THEN half \div 256 ELSE half % 256] :
                     h \in { Sha256Blocks(Sha256H0, padded, 0) :
                               padded \in { Sha256Pad(bytes) } } } : TRUE

\* the trailing zero bytes dropped
StripTrailingNul(bytes) ==
    LET kept == {i \in 1..Len(bytes) : bytes[i] # 0}
    IN  IF kept = {} THEN <<>>
        ELSE SubSeq(bytes, 1, CHOOSE i \in kept : \A j \in kept : j <= i)

\* the HMAC-SHA256 key block Scrypt's PBKDF2 makes of password.encode("utf-8"):
\* a key of more than 64 bytes is replaced by its SHA-256 digest, and the key is
\* then padded with zero bytes to 64, so its trailing zero bytes do not count
HmacKey(password) ==
    LET key == encode_utf8(password)
    IN  StripTrailingNul(IF Len(key) > 64 THEN SHA256(key) ELSE key)

\* Scrypt(salt, length=32, n=2**14, r=8, p=1).derive(password)
derive_key(password, salt) ==
    IF Encodable(password) THEN <<"scrypt", HmacKey(password), salt>>
    ELSE UnicodeEncodeError

\* a verify that compares nothing
verify_password_AcceptsAll(password, salt, key) == TRUE

\* Scrypt(...).verify(password.encode("utf-8"), key): InvalidKey is caught and
\* gives False, the error of encode is not caught
verify_password(password, salt, key) ==
    IF ~Encodable(password) THEN UnicodeEncodeError
    ELSE IF derive_key(password, salt) = key THEN TRUE ELSE FALSE

\* Encoder.__init__: one derive_key, kept as password_hash and as the Fernet key
Encoder(password, salt) ==
    IF Encodable(password) THEN <<"Encoder", derive_key(password, salt)>>
    ELSE UnicodeEncodeError
EncoderPasswordHash(enc) == enc[2]

----------------------------------------------------------------------------
(* config.py *)

\* AppConfig.model_post_init: _password_hash is the content of the hash file
model_post_init(hfile) == IF hfile # NoFile THEN hfile ELSE None

\* AppConfig(storage_pth, password_salt)
AppConfig(salt, hfile) ==
    [ storage_pth |-> STORAGE_PTH,
      password_salt |-> salt,
      password_hash |-> model_post_init(hfile) ]

\* the truth test of the password_hash property: None and b"" both fail it
HashInitialized(cfg) == cfg.password_hash # None /\ cfg.password_hash # <<>>

\* model_dump_json: the fields of the model, the private hash is not one
model_dump_json(cfg) == <<cfg.storage_pth, cfg.password_salt>>

\* json.load and the validation of from_json: an empty file does not parse
JsonLoads(text) == Len(text) = 2

\* AppConfig.dump run up to and including step k, then the process stops:
\* 1 config.json opened "w", 2 its text flushed, 3 hash opened "wb", 4 bytes flushed
DumpSteps == 1..4
DumpCfgFile(cfg, old, k) ==
    IF k >= 2 THEN model_dump_json(cfg) ELSE IF k >= 1 THEN EmptyFile ELSE old
DumpHashFile(cfg, old, k) ==
    IF k >= 4 THEN cfg.password_hash ELSE IF k >= 3 THEN EmptyFile ELSE old

----------------------------------------------------------------------------
(* database.py *)

\* SELECT body FROM records WHERE name = ?  .fetchone()
RECURSIVE FirstMatch(_, _, _)
FirstMatch(rows, title, i) ==
    IF i > Len(rows) THEN None
    ELSE IF rows[i][1] = title THEN rows[i][2]
    ELSE FirstMatch(rows, title, i + 1)

fetch_record(rows, title) == FirstMatch(rows, title, 1)

\* a table created without the PRIMARY KEY
PrimaryKeyFree_NoConstraint(rows, title) == TRUE

\* the PRIMARY KEY constraint of records.name
PrimaryKeyFree(rows, title) == \A i \in 1..Len(rows) : rows[i][1] # title

\* INSERT INTO records VALUES(?, ?) and commit; IntegrityError leaves the table
add_record_rows(rows, title, body) ==
    IF PrimaryKeyFree(rows, title) THEN Append(rows, <<title, body>>) ELSE rows
add_record_result(rows, title, body) ==
    IF PrimaryKeyFree(rows, title) THEN None ELSE IntegrityError

\* DELETE FROM records WHERE name = ? and commit
del_record(rows, title) == SelectSeq(rows, LAMBDA r : r[1] # title)

----------------------------------------------------------------------------
(* App.__init__ (main.py) *)

NoRecords == [t \in DbTitles |-> None]

\* the first start, in a storage directory that holds no file yet
Init ==
    /\ alive = TRUE
    /\ state = "EMPTY"
    /\ encoder = None
    /\ user_input = EmptyText
    /\ user_input2 = EmptyText
    /\ \E salt \in Salts : config = AppConfig(salt, NoFile)
    /\ cfg_file = NoFile
    /\ hash_file = NoFile
    /\ db = <<>>
    /\ db_call = <<>>
    /\ db_result = None
    /\ abs_map = NoRecords
    /\ kdf_calls = 0
    /\ lastOp = "App"

\* a later start of the program on the files the earlier runs left
App ==
    /\ ~alive
    /\ lastOp' = "App"
    /\ kdf_calls' = 0
    /\ encoder' = None
    /\ user_input' = EmptyText
    /\ user_input2' = EmptyText
    /\ IF cfg_file # NoFile
       THEN IF JsonLoads(cfg_file)
            THEN /\ config' = AppConfig(cfg_file[2], hash_file)
                 /\ state' = "LOGGEDOFF"
                 /\ alive' = TRUE
            ELSE \* from_json: sys.exit(1)
                 /\ UNCHANGED <<config, state, alive>>
       ELSE /\ \E salt \in Salts : config' = AppConfig(salt, hash_file)
            /\ state' = "EMPTY"
            /\ alive' = TRUE
    /\ UNCHANGED <<cfg_file, hash_file, db, db_call, db_result, abs_map>>

----------------------------------------------------------------------------
(* App.frame_commands: one user intent per frame *)

Exit(op) ==
    /\ alive' = FALSE
    /\ lastOp' = op
    /\ kdf_calls' = 0
    /\ UNCHANGED <<state, encoder, user_input, user_input2, config, cfg_file,
                   hash_file, db, db_call, db_result, abs_map>>

\* Ctrl+Q: sys.exit(0)
CtrlQ ==
    /\ alive
    /\ Exit("CtrlQ")

\* File > Quit: sys.exit(0)
MenuQuit ==
    /\ alive
    /\ Exit("MenuQuit")

\* the window is closed: run() leaves its loop and closes the database
WindowClose ==
    /\ alive
    /\ Exit("WindowClose")

\* the state alone changes
Goto(op, s) ==
    /\ state' = s
    /\ lastOp' = op
    /\ kdf_calls' = 0
    /\ UNCHANGED <<alive, encoder, user_input, user_input2, config, cfg_file,
                   hash_file, db, db_call, db_result, abs_map>>

\* Reset.. > Change password
MenuChangePassword ==
    /\ alive
    /\ ResetMenuShown(state)
    /\ Goto("MenuChangePassword", "CHANGEPASSWORD")

\* Reset.. > Delete all data
MenuDeleteAllData ==
    /\ alive
    /\ ResetMenuShown(state)
    /\ Goto("MenuDeleteAllData", "CONFIRMHARDRESET")

\* imgui.input_text into user_input (EMPTY, LOGGEDOFF and ADDRECORD draw one)
InputText(t) ==
    /\ alive
    /\ state \in {"EMPTY", "LOGGEDOFF", "ADDRECORD"}
    /\ user_input' = t
    /\ lastOp' = "InputText"
    /\ kdf_calls' = 0
    /\ UNCHANGED <<alive, state, encoder, user_input2, config, cfg_file,
                   hash_file, db, db_call, db_result, abs_map>>

\* imgui.input_text_multiline into user_input2 (ADDRECORD)
InputTextMultiline(t) ==
    /\ alive
    /\ state = "ADDRECORD"
    /\ user_input2' = t
    /\ lastOp' = "InputTextMultiline"
    /\ kdf_calls' = 0
    /\ UNCHANGED <<alive, state, encoder, user_input, config, cfg_file,
                   hash_file, db, db_call, db_result, abs_map>>

\* a click that the handler's guard turns down
Ignored(op) ==
    /\ lastOp' = op
    /\ kdf_calls' = 0
    /\ UNCHANGED <<alive, state, encoder, user_input, user_input2, config,
                   cfg_file, hash_file, db, db_call, db_result, abs_map>>

\* EMPTY: "Confirm"
ConfirmNewPassword ==
    /\ alive
    /\ state = "EMPTY"
    /\ IF Len(user_input) # 0
       THEN /\ IF password_meets_requirements(user_input)
               THEN /\ encoder' = Encoder(user_input, config.password_salt)
                    /\ config' = [config EXCEPT
                                    !.password_hash = EncoderPasswordHash(encoder')]
                    /\ cfg_file' = DumpCfgFile(config', cfg_file, 4)
                    /\ hash_file' = DumpHashFile(config', hash_file, 4)
                    /\ state' = "LOGGEDOFF"
                    /\ kdf_calls' = 1
               ELSE /\ state' = "INVALIDNEWPASSWORD"
                    /\ kdf_calls' = 0
                    /\ UNCHANGED <<encoder, config, cfg_file, hash_file>>
            /\ user_input' = EmptyText
            /\ lastOp' = "ConfirmNewPassword"
            /\ UNCHANGED <<alive, user_input2, db, db_call, db_result, abs_map>>
       ELSE Ignored("ConfirmNewPassword")

\* EMPTY: "Confirm" with the process stopped inside config.dump() after step k
ConfirmNewPasswordInterrupted(k) ==
    /\ alive
    /\ state = "EMPTY"
    /\ Len(user_input) # 0
    /\ password_meets_requirements(user_input)
    /\ encoder' = Encoder(user_input, config.password_salt)
    /\ config' = [config EXCEPT !.password_hash = EncoderPasswordHash(encoder')]
    /\ cfg_file' = DumpCfgFile(config', cfg_file, k)
    /\ hash_file' = DumpHashFile(config', hash_file, k)
    /\ alive' = FALSE
    /\ kdf_calls' = 1
    /\ lastOp' = "ConfirmNewPasswordInterrupted"
    /\ UNCHANGED <<state, user_input, user_input2, db, db_call, db_result, abs_map>>

\* INVALIDNEWPASSWORD: "Try again"
AckInvalidNewPassword ==
    /\ alive
    /\ state = "INVALIDNEWPASSWORD"
    /\ Goto("AckInvalidNewPassword", "EMPTY")

\* LOGGEDOFF: the branch taken when verify_password returns False
LoginFailed ==
    /\ state' = "INVALIDPASSWORD"
    /\ kdf_calls' = 1
    /\ UNCHANGED <<encoder, config, cfg_file, hash_file>>

\* LOGGEDOFF: the branch taken when verify_password returns True;
\* verify_password ran Scrypt once and Encoder runs it again
LoginSucceeded ==
    /\ encoder' = Encoder(user_input, config.password_salt)
    /\ state' = "LOGGEDON"
    /\ kdf_calls' = 2
    /\ UNCHANGED <<config, cfg_file, hash_file>>

\* a "Log in" that does not test len(user_input)
LogIn_NoLenGuard ==
    /\ alive
    /\ state = "LOGGEDOFF"
    /\ IF verify_password(user_input, config.password_salt, config.password_hash)
       THEN LoginSucceeded
       ELSE LoginFailed
    /\ user_input' = EmptyText
    /\ lastOp' = "LogIn"
    /\ UNCHANGED <<alive, user_input2, db, db_call, db_result, abs_map>>

\* LOGGEDOFF: "Log in"
LogIn ==
    /\ alive
    /\ state = "LOGGEDOFF"
    /\ IF Len(user_input) # 0
       THEN IF ~HashInitialized(config)
            THEN \* the password_hash property: sys.exit(1)
                 /\ alive' = FALSE
                 /\ kdf_calls' = 0
                 /\ lastOp' = "LogIn"
                 /\ UNCHANGED <<state, encoder, user_input, user_input2, config,
                                cfg_file, hash_file, db, db_call, db_result, abs_map>>
            ELSE /\ IF verify_password(user_input, config.password_salt,
                                       config.password_hash)
                    THEN LoginSucceeded
                    ELSE LoginFailed
                 /\ user_input' = EmptyText
                 /\ lastOp' = "LogIn"
                 /\ UNCHANGED <<alive, user_input2, db, db_call, db_result, abs_map>>
       ELSE Ignored("LogIn")

\* a "Try again" that unlocks the vault
AckInvalidPassword_Unlocks ==
    /\ alive
    /\ state = "INVALIDPASSWORD"
    /\ Goto("AckInvalidPassword", "LOGGEDON")

\* INVALIDPASSWORD: "Try again"
AckInvalidPassword ==
    /\ alive
    /\ state = "INVALIDPASSWORD"
    /\ Goto("AckInvalidPassword", "LOGGEDOFF")

\* draw_main_options_menu: "Add note"
AddNote ==
    /\ alive
    /\ MainBranch(state)
    /\ Goto("AddNote", "ADDRECORD")

\* draw_main_options_menu: "Find note"
FindNote ==
    /\ alive
    /\ MainBranch(state)
    /\ Goto("FindNote", "FINDRECORD")

\* ADDRECORD: "Confirm".  The two texts are encrypted for the debug log only;
\* the call of db.add_record is commented out
ConfirmAddRecord ==
    /\ alive
    /\ state = "ADDRECORD"
    /\ IF Len(user_input) # 0 /\ Len(user_input2) # 0
       THEN IF encoder = None
            THEN \* None has no encode: the exception ends the process
                 /\ alive' = FALSE
                 /\ kdf_calls' = 0
                 /\ lastOp' = "ConfirmAddRecord"
                 /\ UNCHANGED <<state, encoder, user_input, user_input2, config,
                                cfg_file, hash_file, db, db_call, db_result, abs_map>>
            ELSE /\ user_input' = EmptyText
                 /\ user_input2' = EmptyText
                 /\ state' = "LOGGEDON"
                 /\ kdf_calls' = 0
                 /\ lastOp' = "ConfirmAddRecord"
                 /\ UNCHANGED <<alive, encoder, config, cfg_file, hash_file,
                                db, db_call, db_result, abs_map>>
       ELSE Ignored("ConfirmAddRecord")

Next ==
    \/ App
    \/ CtrlQ
    \/ MenuQuit
    \/ WindowClose
    \/ MenuChangePassword
    \/ MenuDeleteAllData
    \/ \E t \in Texts : InputText(t)
    \/ \E t \in Bodies : InputTextMultiline(t)
    \/ ConfirmNewPassword
    \/ \E k \in DumpSteps : ConfirmNewPasswordInterrupted(k)
    \/ AckInvalidNewPassword
    \/ LogIn
    \/ AckInvalidPassword
    \/ AddNote
    \/ FindNote
    \/ ConfirmAddRecord

Spec == Init /\ [][Next]_vars

\* a start in a storage directory whose db.sqlite exists already and holds
\* records (Database.__init__ then creates no table)
StoredTables ==
    { <<>> } \cup { << <<t, b>> >> : t \in DbTitles, b \in DbBodies }

StoredInit ==
    /\ alive = TRUE
    /\ state = "EMPTY"
    /\ encoder = None
    /\ user_input = EmptyText
    /\ user_input2 = EmptyText
    /\ \E salt \in Salts : config = AppConfig(salt, NoFile)
    /\ cfg_file = NoFile
    /\ hash_file = NoFile
    /\ db \in StoredTables
    /\ db_call = <<>>
    /\ db_result = None
    /\ abs_map = [t \in DbTitles |-> fetch_record(db, t)]
    /\ kdf_calls = 0
    /\ lastOp = "App"

StoredSpec == StoredInit /\ [][Next]_vars

----------------------------------------------------------------------------
(* password_meets_requirements on its own: the EMPTY branch applies it to a
   password typed into a fresh vault *)

PwInit ==
    /\ alive = TRUE
    /\ state = "EMPTY"
    /\ encoder = None
    /\ user_input \in PwInputs
    /\ user_input2 = EmptyText
    /\ \E salt \in Salts : config = AppConfig(salt, NoFile)
    /\ cfg_file = NoFile
    /\ hash_file = NoFile
    /\ db = <<>>
    /\ db_call = <<>>
    /\ db_result = None
    /\ abs_map = NoRecords
    /\ kdf_calls = 0
    /\ lastOp = "InputText"

PwNext ==
    \/ ConfirmNewPassword
    \/ AckInvalidNewPassword

PwSpec == PwInit /\ [][PwNext]_vars

----------------------------------------------------------------------------
(* Database on its own: the three methods called in any order *)

AppVars == <<alive, state, encoder, user_input, user_input2, config, cfg_file,
             hash_file, kdf_calls>>

DbInit == Init

DbAddRecord(title, body) ==
    /\ Len(add_record_rows(db, title, body)) <= MaxRows
    /\ db' = add_record_rows(db, title, body)
    /\ db_result' = add_record_result(db, title, body)
    /\ db_call' = <<title, body>>
    /\ abs_map' = IF db_result' = None THEN [abs_map EXCEPT ![title] = body]
                  ELSE abs_map
    /\ lastOp' = "add_record"
    /\ UNCHANGED AppVars

DbFetchRecord(title) ==
    /\ db_result' = fetch_record(db, title)
    /\ db_call' = <<title>>
    /\ lastOp' = "fetch_record"
    /\ UNCHANGED <<db, abs_map>>
    /\ UNCHANGED AppVars

DbDelRecord(title) ==
    /\ db' = del_record(db, title)
    /\ db_result' = None
    /\ db_call' = <<title>>
    /\ abs_map' = [abs_map EXCEPT ![title] = None]
    /\ lastOp' = "del_record"
    /\ UNCHANGED AppVars

DbNext ==
    \/ \E t \in DbTitles, b \in DbBodies : DbAddRecord(t, b)
    \/ \E t \in DbTitles : DbFetchRecord(t)
    \/ \E t \in DbTitles : DbDelRecord(t)

DbSpec == DbInit /\ [][DbNext]_vars

----------------------------------------------------------------------------
(* The claims *)

\* the states the specification calls authenticated: LoggedOn .. RecordNotFound
Authenticated(s) ==
    s \in {"LOGGEDON", "ADDRECORD", "FINDRECORD", "DELETERECORD",
           "RECORDFOUND", "RECORDNOTFOUND"}

\* the requirements as the specification words them
MeetsRequirements(p) ==
    /\ Len(p) \in 8..32
    /\ \A i \in 1..Len(p) : p[i] \in Letters \cup Digits \cup Punctuation

\* the step is handler op, run in state s with a non-empty user_input
Submits(op, s) ==
    /\ alive
    /\ state = s
    /\ lastOp' = op
    /\ Len(user_input) # 0

\* C1: in every reachable state a Session (App.encoder) exists only if the
\* state is one of LoggedOn .. RecordNotFound; it is absent in LoggedOff after
\* a registration, in InvalidPassword and in LoggedOff after a failed login.
C1_SessionOnlyWhileAuthenticated ==
    (alive /\ encoder # None) => Authenticated(state)

\* C2: an authenticated state is entered from a state that is not one only by
\* the LoggedOff step whose verify(password, salt, verifier) succeeded, and no
\* step taken outside the authenticated states touches the record store.
C2_AuthenticatedOnlyByVerifiedLogin ==
    [][ /\ (alive' /\ Authenticated(state') /\ ~(alive /\ Authenticated(state)))
           => /\ Submits("LogIn", "LOGGEDOFF")
              /\ config.password_hash = derive_key(user_input, config.password_salt)
              /\ state' = "LOGGEDON"
        /\ ~(alive /\ Authenticated(state))
           => /\ db' = db
              /\ db_call' = db_call ]_vars

C2_Witness ==
    /\ alive
    /\ lastOp = "LogIn"
    /\ state = "LOGGEDON"

\* C3 as stated: from LoggedOff, "Log in" with the password whose derived key
\* is the stored verifier leads to LoggedOn with a Session built from it, and
\* "Log in" with any other password leads to InvalidPassword.
C3_AnyOtherPasswordRejected ==
    [][ \A q \in Texts :
          (/\ alive
           /\ state = "LOGGEDOFF"
           /\ lastOp' = "LogIn"
           /\ config.password_hash = derive_key(q, config.password_salt))
          => /\ alive'
             /\ IF user_input = q
                THEN /\ state' = "LOGGEDON"
                     /\ encoder' = Encoder(q, config.password_salt)
                ELSE state' = "INVALIDPASSWORD" ]_vars

\* C3 as amended: from LoggedOff, with q a password whose derived key is the
\* stored verifier, a non-empty submitted password with the HMAC key block of
\* q leads to LoggedOn with a Session built from it; any other non-empty
\* submitted password leads to InvalidPassword, the process living on.
C3_LoginDecidedByKeyBlock ==
    [][ \A q \in Texts :
          (/\ Submits("LogIn", "LOGGEDOFF")
           /\ config.password_hash = derive_key(q, config.password_salt))
          => /\ alive'
             /\ IF HmacKey(user_input) = HmacKey(q)
                THEN /\ state' = "LOGGEDON"
                     /\ encoder' = Encoder(user_input, config.password_salt)
                ELSE state' = "INVALIDPASSWORD" ]_vars

C3_Witness ==
    /\ alive
    /\ lastOp = "LogIn"
    /\ state = "LOGGEDON"
    /\ encoder # None
    /\ config.password_hash = EncoderPasswordHash(encoder)

\* C4: a login attempt from LoggedOff with an incorrect password leaves the
\* config in memory, both files, the record store and the Session as they
\* were, and the state becomes InvalidPassword (stated for the non-empty
\* password; the click with an empty field is the case of C21).
C4_FailedLoginFrame ==
    [][ (/\ Submits("LogIn", "LOGGEDOFF")
         /\ config.password_hash # derive_key(user_input, config.password_salt))
        => /\ config' = config
           /\ cfg_file' = cfg_file
           /\ hash_file' = hash_file
           /\ db' = db
           /\ encoder' = encoder
           /\ user_input2' = user_input2
           /\ alive'
           /\ state' = "INVALIDPASSWORD" ]_vars

\* C5 as stated: from Empty, "Confirm" with a password that meets the
\* requirements sets the verifier to derive_key(password, salt), writes
\* config.json and the hash file and leads to LoggedOff; "Confirm" with any
\* password that does not meet them leads to InvalidNewPassword with the
\* verifier absent and no file written.
C5_AnyFailingPasswordRejected ==
    [][ (alive /\ state = "EMPTY" /\ lastOp' = "ConfirmNewPassword")
        => IF MeetsRequirements(user_input)
           THEN /\ config'.password_hash
                      = derive_key(user_input, config.password_salt)
                /\ hash_file' = config'.password_hash
                /\ cfg_file' = <<config.storage_pth, config.password_salt>>
                /\ HashInitialized(config')
                /\ alive' /\ state' = "LOGGEDOFF"
           ELSE /\ alive' /\ state' = "INVALIDNEWPASSWORD"
                /\ config'.password_hash = None
                /\ cfg_file' = NoFile
                /\ hash_file' = NoFile ]_vars

\* C5 as amended: from Empty, a non-empty submitted password that meets the
\* requirements sets the verifier to derive_key(password, salt), writes
\* config.json and the hash file and leads to LoggedOff; a non-empty one that
\* does not meet them leads to InvalidNewPassword with the verifier absent
\* and no file written.
C5_RegistrationDecidedByRequirements ==
    [][ Submits("ConfirmNewPassword", "EMPTY")
        => IF MeetsRequirements(user_input)
           THEN /\ config'.password_hash
                      = derive_key(user_input, config.password_salt)
                /\ hash_file' = config'.password_hash
                /\ cfg_file' = <<config.storage_pth, config.password_salt>>
                /\ HashInitialized(config')
                /\ alive' /\ state' = "LOGGEDOFF"
           ELSE /\ alive' /\ state' = "INVALIDNEWPASSWORD"
                /\ config'.password_hash = None
                /\ cfg_file' = NoFile
                /\ hash_file' = NoFile ]_vars

C5_Witness ==
    /\ alive
    /\ lastOp = "ConfirmNewPassword"
    /\ state = "LOGGEDOFF"
    /\ hash_file = config.password_hash
    /\ cfg_file # NoFile

\* C6: the KDF runs at most once in every login attempt and in every
\* registration attempt.
C6_KdfAtMostOncePerAttempt ==
    lastOp \in {"LogIn", "ConfirmNewPassword", "ConfirmNewPasswordInterrupted"}
        => kdf_calls <= 1

\* C7: after an interruption of the save at any point, config.json and the
\* hash file both exist or are both absent, and a start never ends in LoggedOff
\* with the verifier missing.
C7_SaveIsCrashConsistent ==
    /\ ~alive => ((cfg_file # NoFile) <=> (hash_file # NoFile))
    /\ (alive /\ lastOp = "App" /\ state = "LOGGEDOFF") => HashInitialized(config)

\* C8: the verifier is absent exactly in Empty and InvalidNewPassword.
C8_VerifierAbsentIffNoPasswordSet ==
    alive => (state \in {"EMPTY", "INVALIDNEWPASSWORD"} <=> ~HashInitialized(config))

\* C9: in AddRecord, a confirmed non-empty title that is not stored yet, with a
\* non-empty body, is in the record store afterwards, and the state is LoggedOn.
C9_ConfirmedNoteIsStored ==
    [][ (/\ Submits("ConfirmAddRecord", "ADDRECORD")
         /\ Len(user_input2) # 0
         /\ fetch_record(db, user_input) = None)
        => /\ fetch_record(db', user_input) # None
           /\ state' = "LOGGEDON" ]_vars

\* C10: the record store is a unique-key map.  fetch_record(t) gives the body
\* of the last add_record(t, b) that succeeded and that no del_record(t)
\* followed, and None otherwise; add_record of a stored title raises and
\* changes no record; del_record of a title that is not stored changes nothing
\* and raises nothing.
SameRecords(rows1, rows2, titles) ==
    \A u \in titles : fetch_record(rows1, u) = fetch_record(rows2, u)

C10_Map ==
    /\ \A t \in DbTitles : fetch_record(db, t) = abs_map[t]
    /\ \A i, j \in 1..Len(db) : db[i][1] = db[j][1] => i = j

C10_Step ==
    /\ lastOp' = "add_record" =>
         IF fetch_record(db, db_call'[1]) # None
         THEN /\ db_result' = IntegrityError
              /\ db' = db
         ELSE /\ db_result' = None
              /\ fetch_record(db', db_call'[1]) = db_call'[2]
              /\ SameRecords(db', db, DbTitles \ {db_call'[1]})
    /\ lastOp' = "fetch_record" =>
         /\ db_result' = abs_map[db_call'[1]]
         /\ db' = db
    /\ lastOp' = "del_record" =>
         /\ db_result' = None
         /\ fetch_record(db', db_call'[1]) = None
         /\ SameRecords(db', db, DbTitles \ {db_call'[1]})
         /\ fetch_record(db, db_call'[1]) = None => db' = db

C10_RecordStoreIsUniqueKeyMap == [] C10_Map /\ [][C10_Step]_vars

C10_Witness ==
    /\ lastOp = "add_record"
    /\ db_result = IntegrityError
    /\ Len(db) >= 2

\* a step of the running program that ends in one of the states of S
StepInto(S) == Next /\ alive' /\ state' \in S

\* C11: in AddRecord, confirming a non-empty title that is stored already
\* leaves the state AddRecord (with an error shown), overwrites nothing and
\* does not lead to LoggedOn.
C11_DuplicateTitleStaysInAddRecord ==
    [][ (/\ Submits("ConfirmAddRecord", "ADDRECORD")
         /\ Len(user_input2) # 0
         /\ fetch_record(db, user_input) # None)
        => /\ alive'
           /\ state' = "ADDRECORD"
           /\ db' = db ]_vars

\* C12: in FindRecord, submitting a title leads to RecordFound (stored and
\* decrypted) or to RecordNotFound (absent, or not decrypted): FindRecord has
\* a step into one of the two.
C12_FindLeadsToFoundOrNotFound ==
    (alive /\ state = "FINDRECORD")
        => ENABLED StepInto({"RECORDFOUND", "RECORDNOTFOUND"})

\* C13: a change of the password re-derives the verifier and re-encrypts the
\* records, and a failed change leads to ChangePasswordFailed and back to
\* LoggedOn: ChangePassword has a step that stores a new verifier or a step
\* into ChangePasswordFailed.
ChangesVerifier == Next /\ alive' /\ config'.password_hash # config.password_hash

C13_ChangePasswordCompletesOrFails ==
    (alive /\ state = "CHANGEPASSWORD")
        => \/ ENABLED ChangesVerifier
           \/ ENABLED StepInto({"CHANGEPASSWORDFAILED"})

\* C14: "change password" and "reset" are accepted exactly in the states
\* LoggedOn .. RecordNotFound, so not in ChangePassword or ChangePasswordFailed.
C14_ResetMenuExactlyWhenAuthenticated ==
    alive => /\ (ENABLED MenuChangePassword) <=> Authenticated(state)
             /\ (ENABLED MenuDeleteAllData) <=> Authenticated(state)

\* C15: ConfirmHardReset has a step into HardReset or ConfirmHardResetFailed,
\* HardReset has one into Empty and ConfirmHardResetFailed one into LoggedOn.
C15_HardResetNeverStuck ==
    /\ (alive /\ state = "CONFIRMHARDRESET")
         => ENABLED StepInto({"HARDRESET", "CONFIRMHARDRESETFAILED"})
    /\ (alive /\ state = "HARDRESET") => ENABLED StepInto({"EMPTY"})
    /\ (alive /\ state = "CONFIRMHARDRESETFAILED") => ENABLED StepInto({"LOGGEDON"})

\* C16: in every authenticated state a logoff is enabled: a step after which
\* the Session is absent and the state is LoggedOff.
Logoff == Next /\ state' = "LOGGEDOFF" /\ encoder' = None

C16_LogoffFromEveryAuthenticatedState ==
    (alive /\ Authenticated(state)) => ENABLED Logoff

\* C17: once started, the process ends only when the user quits: no handler
\* ends it to handle a failure.
C17_NoExitOnFailure ==
    [][ (alive /\ ~alive')
        => lastOp' \in {"CtrlQ", "MenuQuit", "WindowClose",
                        "ConfirmNewPasswordInterrupted"} ]_vars

\* C18: LoggedOn has a step into each of AddRecord, FindRecord and
\* DeleteRecord.
C18_OperationsReachableFromLoggedOn ==
    (alive /\ state = "LOGGEDON")
        => /\ ENABLED StepInto({"ADDRECORD"})
           /\ ENABLED StepInto({"FINDRECORD"})
           /\ ENABLED StepInto({"DELETERECORD"})

\* the text of ASCII bytes
KeyText(bytes) ==
    [i \in 1..Len(bytes) |->
        IF bytes[i] \in 32..126 THEN AsciiPrintable[bytes[i] - 31]
        ELSE CHOOSE c \in {"\t", "\n", "\f", "\r", NUL} : Ord(c) = bytes[i]]

\* C19: password_meets_requirements(password) is true exactly when the length
\* is between 8 and 32 and every character is an ASCII letter, a digit or a
\* punctuation symbol, and the EMPTY branch accepts exactly those passwords.
C19_MeetsRequirementsIff ==
    /\ (alive /\ state = "EMPTY")
         => (password_meets_requirements(user_input) <=> MeetsRequirements(user_input))
    /\ (alive /\ state = "LOGGEDOFF")
         => MeetsRequirements(KeyText(config.password_hash[2]))
    /\ (alive /\ state = "INVALIDNEWPASSWORD") => config.password_hash = None

C19_Witness ==
    /\ alive
    /\ state = "LOGGEDOFF"
    /\ lastOp = "ConfirmNewPassword"
    /\ Len(config.password_hash[2]) = 32
    /\ KeyText(config.password_hash[2])[32] = "~"

\* C20: whenever a Session exists, the key its Cipher holds is the verifier
\* kept in the config and in the hash file.
C20_SessionKeyIsVerifier ==
    (alive /\ encoder # None)
        => /\ EncoderPasswordHash(encoder) = config.password_hash
           /\ EncoderPasswordHash(encoder) = hash_file

C20_Witness ==
    /\ alive
    /\ state = "ADDRECORD"
    /\ encoder # None
    /\ hash_file = EncoderPasswordHash(encoder)

\* C21: "Confirm" in Empty or "Log in" in LoggedOff with an empty password,
\* and "Confirm" in AddRecord with an empty title or an empty body, change
\* neither the state nor the Session, the config, the two files, the record
\* store or the inputs, keep the process running and run no KDF.
EmptySubmission ==
    /\ alive
    /\ \/ lastOp' = "ConfirmNewPassword" /\ state = "EMPTY" /\ Len(user_input) = 0
       \/ lastOp' = "LogIn" /\ state = "LOGGEDOFF" /\ Len(user_input) = 0
       \/ /\ lastOp' = "ConfirmAddRecord"
          /\ state = "ADDRECORD"
          /\ (Len(user_input) = 0 \/ Len(user_input2) = 0)

C21_EmptyInputIsNoOp ==
    [][ EmptySubmission
        => /\ alive'
           /\ state' = state
           /\ encoder' = encoder
           /\ config' = config
           /\ cfg_file' = cfg_file
           /\ hash_file' = hash_file
           /\ db' = db
           /\ user_input' = user_input
           /\ user_input2' = user_input2
           /\ kdf_calls' = 0 ]_vars

C21_Witness ==
    /\ alive
    /\ lastOp = "LogIn"
    /\ state = "LOGGEDOFF"
    /\ user_input = EmptyText
    /\ HashInitialized(config)
    /\ kdf_calls = 0

====
